---- MODULE Spec2Model ----
(***************************************************************************)
(* A model of py_universal_loader: one loader instance built by            *)
(* get_loader, its connect / load_dataframe / close operations, and the    *)
(* collaborators they call (database client, object-storage client, local  *)
(* files).  Every collaborator call of an operation is recorded, in order, *)
(* in `log`; the exception the operation ends with is recorded in          *)
(* `result`.  A collaborator call raises when its name is in the fault set *)
(* the environment picks for the operation.                                *)
(***************************************************************************)
EXTENDS Integers, Sequences, FiniteSets, TLC

\* ---------------------------------------------------------------- bounds
MaxRows == 1
MaxLoads == 2

\* ------------------------------------------------------------- vocabulary
None == 0
NoKey == "<absent>"
\* one row value: datasets and tables differ by their number of rows
RowValues == {1}
TableNames == {"t"}

LOADER_MAPPING ==
  [sqlite |-> "SQLiteLoader", mysql |-> "MySQLLoader", mssql |-> "MSSQLLoader",
   duckdb |-> "DuckDBLoader", postgres |-> "PostgresLoader",
   redshift |-> "RedshiftLoader", bigquery |-> "BigQueryLoader",
   databricks |-> "DatabricksLoader", snowflake |-> "SnowflakeLoader"]
\* the values config.get("db_type") can have: registered, missing, unregistered
DbTypes == DOMAIN LOADER_MAPPING \cup {NoKey, "unsupported_db"}
\* no loader has been constructed
NoLoader == "<no loader>"
StagedLoaders == {"redshift", "snowflake", "databricks"}

\* the calls made on the backend connection (or BigQuery client)
BackendCalls ==
  {"cursor", "execute_drop", "execute_create", "execute_create_if_not_exists",
   "execute_truncate", "execute_copy", "execute_bulk", "copy_expert",
   "commit", "rollback", "to_sql_replace", "to_sql_append", "register",
   "execute_create_or_replace", "execute_insert", "unregister",
   "load_job_truncate", "load_job_append", "job_result",
   "db_connect", "db_close"}
\* the statements passed to cursor.execute / connection.execute
StatementCalls ==
  {"execute_drop", "execute_create", "execute_create_if_not_exists",
   "execute_truncate", "execute_copy", "execute_bulk", "copy_expert",
   "execute_create_or_replace", "execute_insert"}
\* the calls made on the object-storage client
StorageCalls == {"upload_fileobj", "delete_object", "s3_client"}
\* local steps: serialisation and staging files
LocalCalls == {"to_parquet", "to_csv_buffer", "mkstemp", "to_csv_file", "os_remove"}

\* ------------------------------------------------------------- exceptions
NoExc == [cls |-> "none", msg |-> "", val |-> "", cause |-> "none"]
\* a built-in exception raised by the loader: msg is the fixed part of its
\* message, val the value formatted into it, cause the exception it was
\* raised from ("none" without `from`)
Exc(cls, msg, val, cause) == [cls |-> cls, msg |-> msg, val |-> val, cause |-> cause]
\* the exception a collaborator call raised, passed on unchanged
ClientError(call) == [cls |-> "ClientError", msg |-> "", val |-> "", cause |-> call]
\* how an exception is named as the cause of a wrapping one
CauseOf(e) == IF e.cls = "ClientError" THEN e.cause ELSE e.cls

\* ------------------------------------------------------------ the dataset
RECURSIVE SeqsUpTo(_, _)
SeqsUpTo(S, n) ==
  IF n = 0 THEN {<<>>}
  ELSE LET shorter == SeqsUpTo(S, n - 1)
       IN shorter \cup {Append(s, x) : s \in {t \in shorter : Len(t) = n - 1}, x \in S}
DataFrames == SeqsUpTo(RowValues, MaxRows)
\* a faulty emptiness test: `if df is None`, which no dataset satisfies
DfEmpty_IsNone(df) == FALSE
\* df.empty
DfEmpty(df) == Len(df) = 0

\* ---------------------------------------------------------- configuration
ConfigGet(config, key, default) ==
  IF config[key] = NoKey THEN default ELSE config[key]
\* Python's `not value` for a value read with config.get(key)
Falsy(v) == v = NoKey \/ v = ""

IfExistsValues == {NoKey, "replace", "append", "invalid_option"}
Configs(db_type) ==
  [if_exists : IfExistsValues,
   s3_bucket : IF db_type \in StagedLoaders THEN {NoKey, "bucket"} ELSE {NoKey},
   iam_role_arn : IF db_type \in StagedLoaders THEN {NoKey, "role"} ELSE {NoKey},
   staging_file_path : IF db_type = "mssql" THEN {NoKey, "path"} ELSE {NoKey},
   dataset_id : IF db_type = "bigquery" THEN {NoKey, "ds"} ELSE {NoKey}]

\* ------------------------------------------------------ running the calls
\* One collaborator call (or a local raise) of a straight-line block.
Step(call, arg) == [call |-> call, arg |-> arg, exc |-> NoExc]
Raise(e) == [call |-> "raise", arg |-> 0, exc |-> e]
Entry(call, arg, ok) == [call |-> call, arg |-> arg, ok |-> ok]

\* Runs the steps in order until one raises: a call raises when its name is
\* in the fault set F.  Returns the calls made and the exception, if any.
RECURSIVE RunFrom(_, _, _)
RunFrom(steps, F, acc) ==
  IF steps = <<>> THEN [log |-> acc, exc |-> NoExc]
  ELSE LET s == Head(steps)
       IN IF s.call = "raise" THEN [log |-> acc, exc |-> s.exc]
          ELSE IF s.call \in F
               THEN [log |-> Append(acc, Entry(s.call, s.arg, FALSE)),
                     exc |-> ClientError(s.call)]
               ELSE RunFrom(Tail(steps), F, Append(acc, Entry(s.call, s.arg, TRUE)))
\* a faulty runner that starts the block again, once, after a call raised
Run_Retrying(steps, F) ==
  LET r == RunFrom(steps, F, <<>>)
  IN IF r.exc = NoExc THEN r ELSE RunFrom(steps, {}, r.log)
Run(steps, F) == RunFrom(steps, F, <<>>)

\* the steps of a call on a handle that may be None: calling a method of
\* None raises AttributeError before any collaborator is reached
OnHandle(handle, step) ==
  IF handle = None THEN Raise(Exc("AttributeError", "", "", "none")) ELSE step

Returns(log) == [log |-> log, exc |-> NoExc]
Raises(log, e) == [log |-> log, exc |-> e]

\* an except handler that calls connection.rollback() and then raises `e`:
\* when rollback itself raises, that exception replaces `e`
RollbackThenRaise(log, e, F) ==
  LET rb == Run(<<Step("rollback", 0)>>, F)
  IN Raises(log \o rb.log, IF rb.exc = NoExc THEN e ELSE rb.exc)

\* -------------------------------------------------- shared load prologue
\* a faulty precondition that forgets the object-storage client
NotConnected_ConnectionOnly(self) == self.connection = None
\* `if not self.connection [or not self.s3_client]`
NotConnected(self) ==
  IF self.db_type \in StagedLoaders
  THEN self.connection = None \/ self.s3_client = None
  ELSE self.connection = None

NotEstablished == Exc("ConnectionError", "connection is not established", "", "none")

\* a faulty reading of the existence policy that ignores the configuration
IfExists_AlwaysReplace(self) == "replace"
\* a faulty default of the existence policy
IfExists_DefaultAppend(self) == ConfigGet(self.config, "if_exists", "append")
\* `if_exists = self.config.get("if_exists", "replace")`
IfExists(self) == ConfigGet(self.config, "if_exists", "replace")
UnsupportedIfExists(self) ==
  Exc("ValueError", "Unsupported if_exists option: ", IfExists(self), "none")
MissingConfig(key) == Exc("ValueError", "must be specified in the config", key, "none")

\* a faulty provisioning that recreates the table under every policy
ProvisionSteps_AlwaysRecreate(if_exists) ==
  <<Step("execute_drop", 0), Step("execute_create", 0)>>
\* the statements that provision the table under the existence policy
ProvisionSteps(if_exists) ==
  IF if_exists = "replace"
  THEN <<Step("execute_drop", 0), Step("execute_create", 0)>>
  ELSE IF if_exists = "append"
       THEN <<Step("execute_create_if_not_exists", 0)>>
       ELSE <<>>

\* ------------------------------------------------- staged-object loaders
\* df.to_parquet(buffer); s3_client.upload_fileobj(buffer, bucket, key)
UploadSteps(self, key) ==
  <<Step("to_parquet", 0), OnHandle(self.s3_client, Step("upload_fileobj", key))>>

RedshiftLoad(self, df, table_name, key, F) ==
  IF NotConnected(self) THEN Raises(<<>>, NotEstablished)
  ELSE IF DfEmpty(df) THEN Returns(<<>>)
  ELSE IF Falsy(self.config.s3_bucket) THEN Raises(<<>>, MissingConfig("s3_bucket"))
  ELSE
    LET up == Run(UploadSteps(self, key), F)
    IN IF up.exc # NoExc
       THEN Raises(up.log, Exc("IOError", "Failed to upload staged file to S3", "", CauseOf(up.exc)))
       ELSE
         LET body ==
               Run(<<Step("cursor", 0), Step("execute_create_if_not_exists", 0)>>
                   \o (IF Falsy(self.config.iam_role_arn)
                       THEN <<Raise(MissingConfig("iam_role_arn"))>>
                       ELSE <<Step("execute_copy", key)>>)
                   \o <<Step("commit", 0), Step("delete_object", key)>>, F)
         IN IF body.exc = NoExc
            THEN Returns(up.log \o body.log)
            ELSE RollbackThenRaise(up.log \o body.log,
                   Exc("IOError", "Failed to load data into Redshift from S3", "",
                       CauseOf(body.exc)), F)

SnowflakeLoad(self, df, table_name, key, F) ==
  IF NotConnected(self) THEN Raises(<<>>, NotEstablished)
  ELSE IF DfEmpty(df) THEN Returns(<<>>)
  ELSE IF IfExists(self) \notin {"replace", "append"} THEN Raises(<<>>, UnsupportedIfExists(self))
  ELSE IF Falsy(self.config.s3_bucket) THEN Raises(<<>>, MissingConfig("s3_bucket"))
  ELSE
    LET body ==
          Run(UploadSteps(self, key)
              \o <<Step("cursor", 0)>>
              \o ProvisionSteps(IfExists(self))
              \o (IF Falsy(self.config.iam_role_arn)
                  THEN <<Raise(MissingConfig("iam_role_arn"))>>
                  ELSE <<Step("execute_copy", key)>>)
              \o <<Step("commit", 0)>>, F)
        handled ==
          IF body.exc = NoExc THEN body
          ELSE RollbackThenRaise(body.log, body.exc, F)
        \* finally: delete_object inside its own try/except, which swallows
        cleanup == Run(<<OnHandle(self.s3_client, Step("delete_object", key))>>, F)
    IN [log |-> handled.log \o cleanup.log, exc |-> handled.exc]

DatabricksLoad(self, df, table_name, key, F) ==
  IF NotConnected(self) THEN Raises(<<>>, NotEstablished)
  ELSE IF DfEmpty(df) THEN Returns(<<>>)
  ELSE IF Falsy(self.config.s3_bucket) THEN Raises(<<>>, MissingConfig("s3_bucket"))
  ELSE IF Falsy(self.config.iam_role_arn) THEN Raises(<<>>, MissingConfig("iam_role_arn"))
  ELSE
    LET up == Run(UploadSteps(self, key), F)
    IN IF up.exc # NoExc
       THEN Raises(up.log, Exc("IOError", "Failed to upload staged file to S3", "", CauseOf(up.exc)))
       ELSE
         LET body ==
               Run(<<Step("cursor", 0), Step("execute_create_if_not_exists", 0),
                     Step("execute_copy", key), Step("delete_object", key)>>, F)
         IN IF body.exc = NoExc
            THEN Returns(up.log \o body.log)
            ELSE Raises(up.log \o body.log,
                   Exc("IOError", "Failed to load data into Databricks from S3", "",
                       CauseOf(body.exc)))

\* ------------------------------------------------ direct-streaming loader
PostgresLoad(self, df, table_name, key, F) ==
  IF NotConnected(self) THEN Raises(<<>>, NotEstablished)
  ELSE IF DfEmpty(df) THEN Returns(<<>>)
  ELSE IF IfExists(self) \notin {"replace", "append"} THEN Raises(<<>>, UnsupportedIfExists(self))
  ELSE
    \* the statements before the try block: an exception leaves unhandled
    LET head == Run(<<Step("cursor", 0)>> \o ProvisionSteps(IfExists(self))
                    \o <<Step("to_csv_buffer", 0)>>, F)
    IN IF head.exc # NoExc THEN head
       ELSE
         LET body == Run(<<Step("copy_expert", 0), Step("commit", 0)>>, F)
         IN IF body.exc = NoExc
            THEN Returns(head.log \o body.log)
            ELSE RollbackThenRaise(head.log \o body.log, body.exc, F)

\* ------------------------------------------------------ local-file loaders
MySQLLoad(self, df, table_name, key, F) ==
  IF NotConnected(self) THEN Raises(<<>>, NotEstablished)
  ELSE IF DfEmpty(df) THEN Returns(<<>>)
  ELSE
    LET head ==
          Run(<<Step("cursor", 0), Step("execute_create_if_not_exists", 0)>>
              \o (IF IfExists(self) = "replace" THEN <<Step("execute_truncate", 0)>>
                  ELSE IF IfExists(self) # "append"
                       THEN <<Raise(UnsupportedIfExists(self))>>
                       ELSE <<>>)
              \* tempfile.NamedTemporaryFile(delete=False), then df.to_csv(path)
              \o <<Step("mkstemp", key), Step("to_csv_file", key)>>, F)
    IN IF head.exc # NoExc THEN head
       ELSE
         LET body == Run(<<Step("execute_bulk", key), Step("commit", 0)>>, F)
             handled ==
               IF body.exc = NoExc THEN Returns(head.log \o body.log)
               ELSE RollbackThenRaise(head.log \o body.log, body.exc, F)
             \* finally: _cleanup_temp_file(); an exception of os.remove
             \* replaces the one in flight
             cleanup == Run(<<Step("os_remove", key)>>, F)
         IN [log |-> handled.log \o cleanup.log,
             exc |-> IF cleanup.exc # NoExc THEN cleanup.exc ELSE handled.exc]

\* the path id the configured staging_file_path names
StagingFilePath(self) == 0

\* a faulty MSSQL load that validates the configuration before it looks
\* at the dataset
MSSQLLoad_ValidatesFirst(self, df, table_name, key, F) ==
  IF NotConnected(self) THEN Raises(<<>>, NotEstablished)
  ELSE IF IfExists(self) \notin {"replace", "append"} THEN Raises(<<>>, UnsupportedIfExists(self))
  ELSE IF Falsy(self.config.staging_file_path)
       THEN Raises(<<>>, Exc("ValueError", "must be provided in the configuration",
                             "staging_file_path", "none"))
  ELSE IF DfEmpty(df) THEN Returns(<<>>)
  ELSE
    LET csv == Run(<<Step("to_csv_file", StagingFilePath(self))>>, F)
    IN IF csv.exc # NoExc THEN csv
       ELSE
         LET body == Run(<<Step("cursor", 0)>> \o ProvisionSteps(IfExists(self))
                         \o <<Step("execute_bulk", StagingFilePath(self)),
                              Step("commit", 0)>>, F)
         IN IF body.exc = NoExc
            THEN Returns(csv.log \o body.log)
            ELSE RollbackThenRaise(csv.log \o body.log, body.exc, F)

MSSQLLoad(self, df, table_name, key, F) ==
  IF NotConnected(self) THEN Raises(<<>>, NotEstablished)
  ELSE IF DfEmpty(df) THEN Returns(<<>>)
  ELSE IF IfExists(self) \notin {"replace", "append"} THEN Raises(<<>>, UnsupportedIfExists(self))
  ELSE IF Falsy(self.config.staging_file_path)
       THEN Raises(<<>>, Exc("ValueError", "must be provided in the configuration",
                             "staging_file_path", "none"))
  ELSE
    LET csv == Run(<<Step("to_csv_file", StagingFilePath(self))>>, F)
    IN IF csv.exc # NoExc THEN csv
       ELSE
         LET body == Run(<<Step("cursor", 0)>> \o ProvisionSteps(IfExists(self))
                         \o <<Step("execute_bulk", StagingFilePath(self)),
                              Step("commit", 0)>>, F)
         IN IF body.exc = NoExc
            THEN Returns(csv.log \o body.log)
            ELSE RollbackThenRaise(csv.log \o body.log, body.exc, F)

\* --------------------------------------------------- library-call loaders
SQLiteLoad(self, df, table_name, key, F) ==
  IF NotConnected(self) THEN Raises(<<>>, NotEstablished)
  ELSE IF DfEmpty(df) THEN Returns(<<>>)
  ELSE IF IfExists(self) \notin {"replace", "append"} THEN Raises(<<>>, UnsupportedIfExists(self))
  ELSE Run(<<Step(IF IfExists(self) = "replace" THEN "to_sql_replace" ELSE "to_sql_append", 0)>>, F)

\* a faulty DuckDB load without the empty-dataset short-circuit
DuckDBLoad_LoadsEmpty(self, df, table_name, key, F) ==
  IF NotConnected(self) THEN Raises(<<>>, NotEstablished)
  ELSE IF IfExists(self) \notin {"replace", "append"} THEN Raises(<<>>, UnsupportedIfExists(self))
  ELSE
    LET body ==
          Run(<<Step("register", key)>>
              \o (IF IfExists(self) = "replace"
                  THEN <<Step("execute_create_or_replace", key)>>
                  ELSE <<Step("execute_create_if_not_exists", key),
                         Step("execute_insert", key)>>), F)
        cleanup == Run(<<Step("unregister", key)>>, F)
    IN [log |-> body.log \o cleanup.log,
        exc |-> IF cleanup.exc # NoExc THEN cleanup.exc ELSE body.exc]
\* a faulty DuckDB load that unregisters the view only when nothing raised
DuckDBLoad_NoFinally(self, df, table_name, key, F) ==
  IF NotConnected(self) THEN Raises(<<>>, NotEstablished)
  ELSE IF DfEmpty(df) THEN Returns(<<>>)
  ELSE IF IfExists(self) \notin {"replace", "append"} THEN Raises(<<>>, UnsupportedIfExists(self))
  ELSE
    Run(<<Step("register", key)>>
        \o (IF IfExists(self) = "replace"
            THEN <<Step("execute_create_or_replace", key)>>
            ELSE <<Step("execute_create_if_not_exists", key),
                   Step("execute_insert", key)>>)
        \o <<Step("unregister", key)>>, F)
\* a faulty DuckDB load that appends whatever the existence policy is
DuckDBLoad_AlwaysAppend(self, df, table_name, key, F) ==
  IF NotConnected(self) THEN Raises(<<>>, NotEstablished)
  ELSE IF DfEmpty(df) THEN Returns(<<>>)
  ELSE IF IfExists(self) \notin {"replace", "append"} THEN Raises(<<>>, UnsupportedIfExists(self))
  ELSE
    LET body == Run(<<Step("register", key), Step("execute_create_if_not_exists", key),
                      Step("execute_insert", key)>>, F)
        cleanup == Run(<<Step("unregister", key)>>, F)
    IN [log |-> body.log \o cleanup.log,
        exc |-> IF cleanup.exc # NoExc THEN cleanup.exc ELSE body.exc]
DuckDBLoad(self, df, table_name, key, F) ==
  IF NotConnected(self) THEN Raises(<<>>, NotEstablished)
  ELSE IF DfEmpty(df) THEN Returns(<<>>)
  ELSE IF IfExists(self) \notin {"replace", "append"} THEN Raises(<<>>, UnsupportedIfExists(self))
  ELSE
    LET body ==
          Run(<<Step("register", key)>>
              \o (IF IfExists(self) = "replace"
                  THEN <<Step("execute_create_or_replace", key)>>
                  ELSE <<Step("execute_create_if_not_exists", key),
                         Step("execute_insert", key)>>), F)
        \* finally: unregister; its exception replaces the one in flight
        cleanup == Run(<<Step("unregister", key)>>, F)
    IN [log |-> body.log \o cleanup.log,
        exc |-> IF cleanup.exc # NoExc THEN cleanup.exc ELSE body.exc]

\* a faulty table id that leaves the dataset out
TableId_TableOnly(self, table_name) == [dataset |-> "", table |-> table_name]
\* f"{self.config.get('dataset_id')}.{table_name}": an absent key reads None
TableId(self, table_name) ==
  [dataset |-> ConfigGet(self.config, "dataset_id", "None"), table |-> table_name]

BigQueryLoad(self, df, table_name, key, F) ==
  IF NotConnected(self) THEN Raises(<<>>, NotEstablished)
  ELSE IF DfEmpty(df) THEN Returns(<<>>)
  ELSE IF IfExists(self) \notin {"replace", "append"} THEN Raises(<<>>, UnsupportedIfExists(self))
  ELSE Run(<<Step(IF IfExists(self) = "replace" THEN "load_job_truncate"
                  ELSE "load_job_append", TableId(self, table_name)),
             Step("job_result", 0)>>, F)

\* a faulty load_dataframe that tests for an empty dataset before anything
LoadDataframe_EmptyFirst(self, df, table_name, key, F) ==
  IF DfEmpty(df) THEN Returns(<<>>)
  ELSE
  CASE self.loader = "RedshiftLoader" -> RedshiftLoad(self, df, table_name, key, F)
    [] self.loader = "SnowflakeLoader" -> SnowflakeLoad(self, df, table_name, key, F)
    [] self.loader = "DatabricksLoader" -> DatabricksLoad(self, df, table_name, key, F)
    [] self.loader = "PostgresLoader" -> PostgresLoad(self, df, table_name, key, F)
    [] self.loader = "MySQLLoader" -> MySQLLoad(self, df, table_name, key, F)
    [] self.loader = "MSSQLLoader" -> MSSQLLoad(self, df, table_name, key, F)
    [] self.loader = "SQLiteLoader" -> SQLiteLoad(self, df, table_name, key, F)
    [] self.loader = "DuckDBLoader" -> DuckDBLoad(self, df, table_name, key, F)
    [] self.loader = "BigQueryLoader" -> BigQueryLoad(self, df, table_name, key, F)
\* load_dataframe of the class the loader is an instance of
LoadDataframe(self, df, table_name, key, F) ==
  CASE self.loader = "RedshiftLoader" -> RedshiftLoad(self, df, table_name, key, F)
    [] self.loader = "SnowflakeLoader" -> SnowflakeLoad(self, df, table_name, key, F)
    [] self.loader = "DatabricksLoader" -> DatabricksLoad(self, df, table_name, key, F)
    [] self.loader = "PostgresLoader" -> PostgresLoad(self, df, table_name, key, F)
    [] self.loader = "MySQLLoader" -> MySQLLoad(self, df, table_name, key, F)
    [] self.loader = "MSSQLLoader" -> MSSQLLoad(self, df, table_name, key, F)
    [] self.loader = "SQLiteLoader" -> SQLiteLoad(self, df, table_name, key, F)
    [] self.loader = "DuckDBLoader" -> DuckDBLoad(self, df, table_name, key, F)
    [] self.loader = "BigQueryLoader" -> BigQueryLoad(self, df, table_name, key, F)

\* ------------------------------------------------------------ the factory
\* a faulty factory that falls back to a default class
GetLoader_WithDefault(db_type) ==
  [loader |-> IF db_type \in DOMAIN LOADER_MAPPING THEN LOADER_MAPPING[db_type]
              ELSE "SQLiteLoader",
   exc |-> NoExc]
\* get_loader(config): the class registered for config.get("db_type"), or
\* ValueError when the key is missing or names no registered class
GetLoader(db_type) ==
  IF db_type = NoKey
  THEN [loader |-> NoLoader,
        exc |-> Exc("ValueError", "Configuration dictionary must contain a 'db_type' key.",
                    "", "none")]
  ELSE IF db_type \in DOMAIN LOADER_MAPPING
       THEN [loader |-> LOADER_MAPPING[db_type], exc |-> NoExc]
       ELSE [loader |-> NoLoader,
             exc |-> Exc("ValueError", "Unsupported database type: ", db_type, "none")]

\* ------------------------------------------------------- connect / close
\* the object a client library returns when it opens a connection or builds
\* a client: a new one, distinct from the one the instance holds
NewHandle(held) == IF held = 1 THEN 2 ELSE 1

\* connect(): the new handles and the exception, per loader class
Connect(self, F) ==
  IF self.db_type \in StagedLoaders
  THEN LET run == Run(<<Step("db_connect", NewHandle(self.connection)),
                        Step("s3_client", NewHandle(self.s3_client))>>, F)
           opened == Len(run.log) >= 1 /\ run.log[1].ok
       IN [log |-> run.log,
           connection |-> IF opened THEN NewHandle(self.connection) ELSE self.connection,
           s3_client |-> IF run.exc = NoExc THEN NewHandle(self.s3_client)
                         ELSE self.s3_client,
           exc |-> IF run.exc = NoExc THEN NoExc
                   ELSE IF self.db_type = "snowflake" THEN run.exc
                   ELSE Exc("ConnectionError",
                            IF self.db_type = "redshift"
                            THEN "Failed to connect to Redshift or S3"
                            ELSE IF opened THEN "Failed to connect to S3"
                                 ELSE "Failed to connect to Databricks",
                            "", CauseOf(run.exc))]
  ELSE LET run == Run(<<Step("db_connect", NewHandle(self.connection))>>, F)
       IN [log |-> run.log,
           connection |-> IF run.exc = NoExc THEN NewHandle(self.connection)
                          ELSE self.connection,
           s3_client |-> self.s3_client,
           exc |-> run.exc]

\* a faulty close() without the `if self.connection` guard
Close_Unguarded(self, F) ==
  LET run == Run(<<OnHandle(self.connection, Step("db_close", self.connection))>>, F)
  IN [log |-> run.log,
      connection |-> IF run.exc = NoExc THEN None ELSE self.connection,
      exc |-> run.exc]
\* close(): `if self.connection: self.connection.close(); self.connection = None`
Close(self, F) ==
  IF self.connection = None
  THEN [log |-> <<>>, connection |-> self.connection, exc |-> NoExc]
  ELSE LET run == Run(<<Step("db_close", self.connection)>>, F)
       IN [log |-> run.log,
           connection |-> IF run.exc = NoExc THEN None ELSE self.connection,
           exc |-> run.exc]

\* ------------------------------------------- effects on the collaborators
RECURSIVE ObjectsAfter(_, _)
\* the objects in the bucket after the calls of `log`
ObjectsAfter(log, objects) ==
  IF log = <<>> THEN objects
  ELSE LET e == Head(log)
       IN ObjectsAfter(Tail(log),
            IF e.call = "upload_fileobj" /\ e.ok THEN objects \cup {e.arg}
            ELSE IF e.call = "delete_object" /\ e.ok THEN objects \ {e.arg}
            ELSE objects)

RECURSIVE FilesAfter(_, _)
\* the local staging files on disk after the calls of `log`
FilesAfter(log, fs) ==
  IF log = <<>> THEN fs
  ELSE LET e == Head(log)
       IN FilesAfter(Tail(log),
            IF e.call \in {"mkstemp", "to_csv_file"} /\ e.ok THEN fs \cup {e.arg}
            ELSE IF e.call = "os_remove" /\ e.ok THEN fs \ {e.arg}
            ELSE fs)

RECURSIVE TempFilePathAfter(_, _)
\* MySQLLoader._temp_file_path after the calls of `log`
TempFilePathAfter(log, path) ==
  IF log = <<>> THEN path
  ELSE LET e == Head(log)
       IN TempFilePathAfter(Tail(log),
            IF e.call = "mkstemp" /\ e.ok THEN e.arg
            ELSE IF e.call = "os_remove" /\ e.ok THEN None
            ELSE path)

\* ------------------------------------------------ the backend's table
\* the target table: absent, or present with its rows in load order
NoTable == [exists |-> FALSE, rows |-> <<>>]
Table(rows) == [exists |-> TRUE, rows |-> rows]
\* connections on which every statement is committed as it completes:
\* Databricks is opened with autocommit=True, DuckDB and DataFrame.to_sql
\* open no transaction that outlives the statement
Autocommit(db_type) == db_type \in {"databricks", "duckdb", "sqlite"}
\* the calls that change the table when they succeed
WritingCalls ==
  {"execute_drop", "execute_create", "execute_create_if_not_exists",
   "execute_truncate", "execute_copy", "execute_bulk", "copy_expert",
   "execute_create_or_replace", "execute_insert", "to_sql_replace",
   "to_sql_append", "load_job_truncate", "load_job_append"}
\* the table after one successful statement that writes the rows of df
StatementEffect(call, t, df) ==
  CASE call = "execute_drop" -> NoTable
    [] call = "execute_create" -> Table(<<>>)
    [] call = "execute_create_if_not_exists" -> IF t.exists THEN t ELSE Table(<<>>)
    [] call = "execute_truncate" -> Table(<<>>)
    [] call \in {"execute_copy", "execute_bulk", "copy_expert", "execute_insert",
                 "to_sql_append", "load_job_append"} -> Table(t.rows \o df)
    [] call \in {"execute_create_or_replace", "to_sql_replace",
                 "load_job_truncate"} -> Table(df)
    [] OTHER -> t

RECURSIVE DatabaseAfter(_, _, _, _)
\* The table after the calls of `log`: `working` is what the loader's
\* connection sees, `committed` what is durable.  A statement that raises
\* changes nothing; commit makes the working table durable, rollback
\* discards it.  A BigQuery load job takes effect when job.result() returns
\* and is discarded when it raises.
DatabaseAfter(log, db, df, auto) ==
  IF log = <<>> THEN db
  ELSE LET e == Head(log)
           w == IF e.ok /\ e.call \in WritingCalls
                THEN StatementEffect(e.call, db.working, df)
                ELSE db.working
       IN DatabaseAfter(Tail(log),
            IF e.call \in {"commit", "job_result"} /\ e.ok
            THEN [committed |-> db.working, working |-> db.working]
            ELSE IF (e.call = "rollback" /\ e.ok) \/ (e.call = "job_result" /\ ~e.ok)
                 THEN [committed |-> db.committed, working |-> db.committed]
                 ELSE IF auto THEN [committed |-> w, working |-> w]
                      ELSE [db EXCEPT !.working = w],
            df, auto)
\* a connection that is closed or replaced loses its open transaction
Discarded(db) == [committed |-> db.committed, working |-> db.committed]

\* the calls that write a staged artifact, and those that remove one
StagingCalls == {"upload_fileobj", "mkstemp", "to_csv_file"}
RemovalCalls == {"delete_object", "os_remove"}
\* the statement (or copy-from-stream call) that ingests the data
IngestCalls == {"execute_copy", "execute_bulk", "copy_expert", "execute_insert"}
\* the ingest statements that read a staged artifact by its name
ArtifactIngestCalls == {"execute_copy", "execute_bulk"}
\* the names (object keys, file paths) the calls of `log` staged under
ArtifactNames(log) ==
  {log[i].arg : i \in {j \in 1..Len(log) : log[j].call \in StagingCalls}}

\* --------------------------------------------------------- fault choices
\* the calls of except and finally blocks
HandlerCalls(db_type) ==
  CASE db_type \in StagedLoaders -> {"rollback", "delete_object"}
    [] db_type \in {"postgres", "mssql"} -> {"rollback"}
    [] db_type = "mysql" -> {"rollback", "os_remove"}
    [] db_type = "duckdb" -> {"unregister"}
    [] OTHER -> {}
\* the calls this load makes when no call raises
MainCalls(self, df, table_name, key) ==
  LET clean == LoadDataframe(self, df, table_name, key, {}).log
  IN {clean[i].call : i \in 1..Len(clean)}
\* A load leaves its main path at the first call that raises, so one failing
\* call of the main path, with any failures of the handlers' calls, covers
\* every way the collaborators can fail during it.
LoadFaults(self, df, table_name, key) ==
  {m \cup hs : m \in {{}} \cup {{c} : c \in MainCalls(self, df, table_name, key)},
               hs \in SUBSET HandlerCalls(self.db_type)}
ConnectFaults(db_type) ==
  IF db_type \in StagedLoaders THEN SUBSET {"db_connect", "s3_client"}
  ELSE SUBSET {"db_connect"}

\* ------------------------------------------------------------- the state
VARIABLES
  db_type,          \* config.get("db_type")
  loader,           \* the class of the loader get_loader built, or NoLoader
  config,           \* self.config
  connection,       \* self.connection (self.client for BigQuery), or None
  s3_client,        \* self.s3_client of the staged-object loaders, or None
  temp_file_path,   \* MySQLLoader._temp_file_path, or None
  s3_objects,       \* keys of the objects in the staging bucket
  files,            \* local staging files on disk
  database,         \* the target table: committed and as the connection sees it
  nextUuid,         \* the next value of uuid4() / temporary file name
  constructed,      \* history: the configuration get_loader was called with
  established,      \* history: a connect() returned and no close() has since
  usedNames,        \* history: the artifact names earlier loads staged under
  running,          \* the loads in progress when two instances load at once
  artifacts,        \* for each artifact name, the running load that wrote it
  schema,           \* the last CREATE TABLE statement generated, with its inputs
  lastOp,           \* the last operation called, its inputs and pre-state
  log,              \* the collaborator calls the last operation made
  result            \* the exception the last operation raised, or NoExc

vars == <<db_type, loader, config, connection, s3_client, temp_file_path, s3_objects,
          files, database, nextUuid, constructed, established, usedNames,
          running, artifacts, schema,
          lastOp, log, result>>

Self ==
  [db_type |-> db_type, loader |-> loader, config |-> config,
   connection |-> connection,
   s3_client |-> s3_client, temp_file_path |-> temp_file_path]

Op(op, df, table_name, key) ==
  [op |-> op, df |-> df, table_name |-> table_name, key |-> key,
   config |-> config, connection |-> connection, s3_client |-> s3_client,
   database |-> database]

\* a configuration dictionary, before get_loader is called with it
Init ==
  /\ db_type \in DbTypes
  /\ config \in Configs(db_type)
  /\ loader = NoLoader
  /\ connection = None
  /\ s3_client = None
  /\ temp_file_path = None
  /\ s3_objects = {}
  /\ files = {}
  /\ database = [committed |-> NoTable, working |-> NoTable]
  /\ nextUuid = 1
  /\ constructed = config
  /\ established = FALSE
  /\ usedNames = {}
  /\ running = <<>>
  /\ artifacts = <<>>
  /\ schema = <<>>
  /\ lastOp = Op("init", <<>>, "", 0)
  /\ log = <<>>
  /\ result = NoExc

\* get_loader(config); loader_class(config) sets self.config and leaves
\* the handles None
GetLoaderOp ==
  /\ loader = NoLoader
  /\ LET r == GetLoader(db_type)
     IN /\ loader' = r.loader
        /\ result' = r.exc
  /\ log' = <<>>
  /\ lastOp' = Op("get_loader", <<>>, "", 0)
  /\ UNCHANGED <<db_type, config, connection, s3_client, temp_file_path,
                 s3_objects, files, database, nextUuid>>

\* connect()
ConnectOp ==
  /\ loader # NoLoader
  /\ \E F \in ConnectFaults(db_type) :
       LET r == Connect(Self, F)
       IN /\ connection' = r.connection
          /\ s3_client' = r.s3_client
          /\ log' = r.log
          /\ result' = r.exc
          /\ database' = IF r.connection # connection THEN Discarded(database)
                         ELSE database
  /\ lastOp' = Op("connect", <<>>, "", 0)
  /\ UNCHANGED <<db_type, loader, config, temp_file_path, s3_objects, files,
                 nextUuid>>

\* close()
CloseOp ==
  /\ loader # NoLoader
  /\ \E F \in SUBSET {"db_close"} :
       LET r == Close(Self, F)
       IN /\ connection' = r.connection
          /\ log' = r.log
          /\ result' = r.exc
          /\ database' = IF r.connection # connection THEN Discarded(database)
                         ELSE database
  /\ lastOp' = Op("close", <<>>, "", 0)
  /\ UNCHANGED <<db_type, loader, config, s3_client, temp_file_path,
                 s3_objects, files, nextUuid>>

\* a faulty load_dataframe that gives up the connection when it raises
LoadOp_ClosesOnFailure ==
  /\ loader # NoLoader
  /\ nextUuid <= MaxLoads
  /\ \E df \in DataFrames, table_name \in TableNames :
     \E r \in {LoadDataframe(Self, df, table_name, nextUuid, F) :
                 F \in LoadFaults(Self, df, table_name, nextUuid)} :
          /\ log' = r.log
          /\ result' = r.exc
          /\ s3_objects' = ObjectsAfter(r.log, s3_objects)
          /\ files' = FilesAfter(r.log, files)
          /\ database' = DatabaseAfter(r.log, database, df, Autocommit(db_type))
          /\ temp_file_path' = TempFilePathAfter(r.log, temp_file_path)
          /\ lastOp' = Op("load", df, table_name, nextUuid)
          /\ nextUuid' = IF r.log = <<>> THEN nextUuid ELSE nextUuid + 1
          /\ connection' = IF r.exc # NoExc /\ r.log # <<>> THEN None ELSE connection
  /\ UNCHANGED <<db_type, loader, config, s3_client>>

\* load_dataframe(df, table_name)
LoadOp ==
  /\ loader # NoLoader
  /\ nextUuid <= MaxLoads
  /\ \E df \in DataFrames, table_name \in TableNames :
     \E r \in {LoadDataframe(Self, df, table_name, nextUuid, F) :
                 F \in LoadFaults(Self, df, table_name, nextUuid)} :
          /\ log' = r.log
          /\ result' = r.exc
          /\ s3_objects' = ObjectsAfter(r.log, s3_objects)
          /\ files' = FilesAfter(r.log, files)
          /\ database' = DatabaseAfter(r.log, database, df, Autocommit(db_type))
          /\ temp_file_path' = TempFilePathAfter(r.log, temp_file_path)
          /\ lastOp' = Op("load", df, table_name, nextUuid)
          /\ nextUuid' = IF r.log = <<>> THEN nextUuid ELSE nextUuid + 1
  /\ UNCHANGED <<db_type, loader, config, connection, s3_client>>

\* the operations of one instance, with no history kept
Untracked == UNCHANGED <<constructed, established, usedNames, running, artifacts, schema>>
DoGetLoader == GetLoaderOp /\ Untracked
DoConnect == ConnectOp /\ Untracked
DoClose == CloseOp /\ Untracked
DoLoad == LoadOp /\ Untracked

Next == DoGetLoader \/ DoConnect \/ DoClose \/ DoLoad

Spec == Init /\ [][Next]_vars

\* ------------------------------------------- the same, with history kept
TrackConnect ==
  /\ ConnectOp
  /\ established' = IF result' = NoExc THEN TRUE ELSE established
  /\ UNCHANGED <<constructed, usedNames, running, artifacts, schema>>
TrackClose ==
  /\ CloseOp
  /\ established' = IF result' = NoExc THEN FALSE ELSE established
  /\ UNCHANGED <<constructed, usedNames, running, artifacts, schema>>
TrackLoad ==
  /\ LoadOp
  /\ usedNames' = usedNames \cup ArtifactNames(log')
  /\ UNCHANGED <<constructed, established, running, artifacts, schema>>
\* `self.config = config` keeps the caller's dictionary, not a copy: the
\* caller assigns config["if_exists"] after the loader was built
CallerSetsIfExists ==
  /\ loader # NoLoader
  /\ \E v \in IfExistsValues \ {NoKey, config.if_exists} :
       config' = [config EXCEPT !.if_exists = v]
  /\ log' = <<>>
  /\ result' = NoExc
  /\ lastOp' = Op("set_config", <<>>, "", 0)
  /\ UNCHANGED <<db_type, loader, connection, s3_client, temp_file_path,
                 s3_objects, files, database, nextUuid, constructed, established,
                 usedNames, running, artifacts, schema>>

NextTracked ==
  DoGetLoader \/ TrackConnect \/ TrackClose \/ TrackLoad \/ CallerSetsIfExists

SpecTracked == Init /\ [][NextTracked]_vars

\* ------------------------------- two instances loading at the same time
\* the loaders that stage an artifact for the backend to read
ArtifactLoaders == StagedLoaders \cup {"mysql", "mssql"}
Instances == {1, 2}
\* the artifact names in use: the configured path and one name per load
Names == {StagingFilePath(Self)} \cup Instances

\* the calls instance p's load_dataframe will make: uuid4() and
\* NamedTemporaryFile give each call a name of its own (here p)
PlannedCalls(p, df, table_name, F) == LoadDataframe(Self, df, table_name, p, F).log
\* one call of the main path may raise
SingleFaults(p, df, table_name) ==
  {{}} \cup {{c} : c \in MainCalls(Self, df, table_name, p)}

\* instance r still has an ingest statement to run
IngestPending(r) ==
  \E i \in 1..Len(running[r].todo) : running[r].todo[i].call \in ArtifactIngestCalls

\* Two connected instances built from the same configuration have both been
\* asked to load rows into the same table.
ConcurrentInit ==
  /\ db_type \in ArtifactLoaders
  /\ config \in Configs(db_type)
  /\ loader = LOADER_MAPPING[db_type]
  /\ connection = NewHandle(None)
  /\ s3_client = IF db_type \in StagedLoaders THEN NewHandle(None) ELSE None
  /\ temp_file_path = None
  /\ s3_objects = {}
  /\ files = {}
  /\ database = [committed |-> NoTable, working |-> NoTable]
  /\ nextUuid = 1
  /\ constructed = config
  /\ established = TRUE
  /\ usedNames = {}
  /\ lastOp = Op("load", <<>>, "", 0)
  /\ log = <<>>
  /\ result = NoExc
  /\ artifacts = [n \in Names |-> None]
  /\ schema = <<>>
  /\ \E table_name \in TableNames :
     \E dfs \in [Instances -> {df \in DataFrames : ~DfEmpty(df)}] :
     \E Fs \in [Instances -> UNION {SingleFaults(p, dfs[p], table_name) : p \in Instances}] :
       /\ \A p \in Instances : Fs[p] \in SingleFaults(p, dfs[p], table_name)
       /\ running = [p \in Instances |->
                       [todo |-> PlannedCalls(p, dfs[p], table_name, Fs[p]),
                        done |-> <<>>, read |-> {}, clobbered |-> FALSE]]

\* instance p makes the next call of its load_dataframe
ConcurrentStep(p) ==
  /\ running[p].todo # <<>>
  /\ LET e == Head(running[p].todo)
         stages == e.call \in StagingCalls /\ e.ok
         removes == e.call \in RemovalCalls /\ e.ok
         ingests == e.call \in ArtifactIngestCalls /\ e.ok
     IN /\ artifacts' = IF stages THEN [artifacts EXCEPT ![e.arg] = p]
                        ELSE IF removes THEN [artifacts EXCEPT ![e.arg] = None]
                        ELSE artifacts
        /\ running' =
             [r \in Instances |->
                IF r = p
                THEN [todo |-> Tail(running[p].todo),
                      done |-> Append(running[p].done, e),
                      read |-> IF ingests THEN {artifacts[e.arg]} ELSE running[p].read,
                      clobbered |-> running[p].clobbered]
                ELSE [running[r] EXCEPT
                        !.clobbered = @ \/ ((stages \/ removes) /\ artifacts[e.arg] = r
                                            /\ IngestPending(r))]]
  /\ UNCHANGED <<db_type, loader, config, connection, s3_client, temp_file_path,
                 s3_objects, files, database, nextUuid, constructed, established,
                 usedNames, schema, lastOp, log, result>>

NextConcurrent == \E p \in Instances : ConcurrentStep(p)

SpecConcurrent == ConcurrentInit /\ [][NextConcurrent]_vars

\* ------------------------------------------- CREATE TABLE from a dataset
MaxCols == 2
MaxNameLen == 2
\* the loaders with a _get_sql_schema / _get_create_table_sql
SchemaLoaders == {"postgres", "mysql", "mssql", "redshift", "snowflake", "databricks"}
\* the keys of every type_mapping, and a dtype that is none of them
RecognizedDtypes ==
  {"int64", "int32", "float64", "float32", "bool", "datetime64[ns]", "object"}
Dtypes == RecognizedDtypes \cup {"category"}

\* type_mapping of each loader
TypeMapping(db) ==
  CASE db = "postgres" ->
         ("int64" :> "BIGINT" @@ "int32" :> "INTEGER" @@ "float64" :> "DOUBLE PRECISION"
          @@ "float32" :> "REAL" @@ "bool" :> "BOOLEAN" @@ "datetime64[ns]" :> "TIMESTAMP"
          @@ "object" :> "TEXT")
    [] db = "mysql" ->
         ("int64" :> "BIGINT" @@ "int32" :> "INTEGER" @@ "float64" :> "DOUBLE"
          @@ "float32" :> "FLOAT" @@ "bool" :> "BOOLEAN" @@ "datetime64[ns]" :> "DATETIME"
          @@ "object" :> "TEXT")
    [] db = "mssql" ->
         ("int64" :> "BIGINT" @@ "int32" :> "INT" @@ "float64" :> "FLOAT"
          @@ "float32" :> "REAL" @@ "bool" :> "BIT" @@ "datetime64[ns]" :> "DATETIME2"
          @@ "object" :> "NVARCHAR(MAX)")
    [] db = "redshift" ->
         ("int64" :> "BIGINT" @@ "int32" :> "INTEGER" @@ "float64" :> "FLOAT8"
          @@ "float32" :> "FLOAT4" @@ "bool" :> "BOOLEAN" @@ "datetime64[ns]" :> "TIMESTAMP"
          @@ "object" :> "VARCHAR(65535)")
    [] db = "snowflake" ->
         ("int64" :> "BIGINT" @@ "int32" :> "INTEGER" @@ "float64" :> "FLOAT"
          @@ "float32" :> "FLOAT" @@ "bool" :> "BOOLEAN"
          @@ "datetime64[ns]" :> "TIMESTAMP_NTZ" @@ "object" :> "VARCHAR")
    [] db = "databricks" ->
         ("int64" :> "BIGINT" @@ "int32" :> "INT" @@ "float64" :> "DOUBLE"
          @@ "float32" :> "FLOAT" @@ "bool" :> "BOOLEAN" @@ "datetime64[ns]" :> "TIMESTAMP"
          @@ "object" :> "STRING")
\* the default of type_mapping.get(dtype, default)
TextType(db) ==
  CASE db \in {"postgres", "mysql"} -> "TEXT"
    [] db = "mssql" -> "NVARCHAR(MAX)"
    [] db = "redshift" -> "VARCHAR(65535)"
    [] db = "snowflake" -> "VARCHAR"
    [] db = "databricks" -> "STRING"
\* type_mapping.get(dtype, default)
SqlType(db, dtype) ==
  IF dtype \in DOMAIN TypeMapping(db) THEN TypeMapping(db)[dtype] ELSE TextType(db)

\* the characters the f-string puts around a column name ("dq" stands for
\* the double quote character and "bt" for the backtick)
OpenQuote(db) ==
  CASE db \in {"postgres", "redshift", "snowflake"} -> "dq"
    [] db \in {"mysql", "databricks"} -> "bt"
    [] db = "mssql" -> "["
CloseQuote(db) ==
  CASE db \in {"postgres", "redshift", "snowflake"} -> "dq"
    [] db \in {"mysql", "databricks"} -> "bt"
    [] db = "mssql" -> "]"

\* column names, as the characters they are made of: a letter, and the
\* character that closes a quoted identifier on the backend
NameChars(db) == {"a", CloseQuote(db)}
ColumnNames(db) == SeqsUpTo(NameChars(db), MaxNameLen) \ {<<>>}
\* df.dtypes: the columns of a dataset, in order
ColumnLists(db) ==
  SeqsUpTo([name : ColumnNames(db), dtype : Dtypes], MaxCols)

\* the f-string of a column: the name between the quote characters, as it
\* is, a blank and the type
ColumnSql(db, col) ==
  <<OpenQuote(db)>> \o col.name \o <<CloseQuote(db), " ", SqlType(db, col.dtype)>>
\* ", ".join(cols)
RECURSIVE Join(_)
Join(texts) ==
  IF texts = <<>> THEN <<>>
  ELSE IF Len(texts) = 1 THEN texts[1]
  ELSE texts[1] \o <<",">> \o Join(Tail(texts))
\* the CREATE clause: three loaders take if_not_exists, three always test
CreateClause(db, if_not_exists) ==
  IF db \in {"mysql", "redshift", "databricks"} THEN "CREATE TABLE IF NOT EXISTS"
  ELSE IF ~if_not_exists THEN "CREATE TABLE"
  ELSE IF db = "mssql" THEN "IF NOT EXISTS (SELECT * FROM sysobjects) CREATE TABLE"
  ELSE "CREATE TABLE IF NOT EXISTS"
\* _get_sql_schema / _get_create_table_sql
GetCreateTableSql(db, columns, table_name, if_not_exists) ==
  [clause |-> CreateClause(db, if_not_exists),
   table |-> table_name,
   columns |-> Join([i \in 1..Len(columns) |-> ColumnSql(db, columns[i])])]

\* a loader of one of the six classes, before any statement was generated
SchemaInit ==
  /\ db_type \in SchemaLoaders
  /\ config \in Configs(db_type)
  /\ loader = LOADER_MAPPING[db_type]
  /\ connection = None
  /\ s3_client = None
  /\ temp_file_path = None
  /\ s3_objects = {}
  /\ files = {}
  /\ database = [committed |-> NoTable, working |-> NoTable]
  /\ nextUuid = 1
  /\ constructed = config
  /\ established = FALSE
  /\ usedNames = {}
  /\ running = <<>>
  /\ artifacts = <<>>
  /\ schema = <<>>
  /\ lastOp = Op("init", <<>>, "", 0)
  /\ log = <<>>
  /\ result = NoExc

\* the loader generates the CREATE TABLE statement for a dataset
GenerateSchema ==
  /\ schema = <<>>
  /\ \E columns \in ColumnLists(db_type), table_name \in TableNames,
        if_not_exists \in BOOLEAN :
       schema' = [columns |-> columns, if_not_exists |-> if_not_exists,
                  statement |-> GetCreateTableSql(db_type, columns, table_name,
                                                  if_not_exists)]
  /\ UNCHANGED <<db_type, loader, config, connection, s3_client, temp_file_path,
                 s3_objects, files, database, nextUuid, constructed, established,
                 usedNames, running, artifacts, lastOp, log, result>>

NextSchema == GenerateSchema

SpecSchema == SchemaInit /\ [][NextSchema]_vars

\* ------------------------------------------------- reading the call log
Called(c) == \E i \in 1..Len(log) : log[i].call = c
Succeeded(c) == \E i \in 1..Len(log) : log[i].call = c /\ log[i].ok
Failed(c) == \E i \in 1..Len(log) : log[i].call = c /\ ~log[i].ok
CountCalls(c) == Cardinality({i \in 1..Len(log) : log[i].call = c})
AllSucceeded == \A i \in 1..Len(log) : log[i].ok
StatementFailed == \E i \in 1..Len(log) : log[i].call \in StatementCalls /\ ~log[i].ok
StatementExecuted == \E i \in 1..Len(log) : log[i].call \in StatementCalls
\* every call named c comes after every call named b
After(c, b) ==
  \A i, j \in 1..Len(log) : (log[i].call = c /\ log[j].call = b) => j < i

\* the call of the log that raised, when one did
FailedCall == log[CHOOSE i \in 1..Len(log) : ~log[i].ok].call
\* the staging files this load created
CreatedFiles ==
  {log[i].arg : i \in {j \in 1..Len(log) :
                         log[j].call \in {"mkstemp", "to_csv_file"} /\ log[j].ok}}

LoadOfRows == lastOp.op = "load" /\ Len(lastOp.df) > 0
LoadOfNoRows == lastOp.op = "load" /\ Len(lastOp.df) = 0
Staged == db_type \in StagedLoaders
\* the instance held every handle its class needs when the load was called
WasConnected ==
  lastOp.connection # None /\ (Staged => lastOp.s3_client # None)

\* ----------------------------------------------------------------- claims

\* C1: a load of a non-empty dataset on an instance without a connection
\* (never connected, or closed), or for a staged-object loader without either
\* the connection or the object-storage client, raises ConnectionError and
\* makes no call to the backend, the object storage or the local disk.
C1_LoadWithoutConnectionRaises ==
  (LoadOfRows /\ ~WasConnected) => (result.cls = "ConnectionError" /\ log = <<>>)

\* C1's case: a staged-object loader that was connected (it still holds the
\* storage client) and then closed is asked to load rows.
C1_Witness ==
  /\ LoadOfRows /\ Staged
  /\ lastOp.connection = None /\ lastOp.s3_client # None
  /\ result.cls = "ConnectionError"

C3_InvalidIfExistsRaises ==
  (LoadOfRows /\ WasConnected /\ config.if_exists = "invalid_option" /\ AllSucceeded
     /\ (Staged => (config.s3_bucket # NoKey /\ config.iam_role_arn # NoKey)))
    => (result.cls = "ValueError" /\ result.val = config.if_exists)

\* C4: a staged-object loader whose configuration lacks s3_bucket or
\* iam_role_arn raises ValueError before any upload and before any statement.
C4_MissingStagingConfigRaisesFirst ==
  (LoadOfRows /\ WasConnected /\ Staged
     /\ (config.s3_bucket = NoKey \/ config.iam_role_arn = NoKey))
    => (result.cls = "ValueError" /\ ~Called("upload_fileobj") /\ ~StatementExecuted)

\* C5: staged-object loaders: when the upload succeeded and a later statement
\* raised, delete_object is not called and the staged object is still in
\* the bucket.
C5_FailedIngestKeepsObject ==
  (LoadOfRows /\ Staged /\ Succeeded("upload_fileobj") /\ StatementFailed)
    => (~Called("delete_object") /\ lastOp.key \in s3_objects)

\* C6: staged-object loaders: when the upload raises, the load raises with
\* no statement executed, no commit and no delete_object.
C6_FailedUploadStops ==
  (LoadOfRows /\ Staged /\ Failed("upload_fileobj"))
    => (result # NoExc /\ ~StatementExecuted /\ ~Called("commit")
        /\ ~Called("delete_object"))

\* C7: staged-object loaders: when the ingest statement succeeded (and the
\* commit, where called, did not raise), commit and delete_object are each
\* called exactly once and the delete comes after the commit.
C7_CommitThenDelete ==
  (LoadOfRows /\ Staged /\ Succeeded("execute_copy") /\ ~Failed("commit"))
    => (CountCalls("commit") = 1 /\ CountCalls("delete_object") = 1
        /\ After("delete_object", "commit"))

\* C8: staged-object loaders: when only the delete_object call raises, the
\* load returns normally and rollback is not called.
C8_DeleteFailureIsTolerated ==
  (LoadOfRows /\ Staged /\ Failed("delete_object")
     /\ \A i \in 1..Len(log) : log[i].call # "delete_object" => log[i].ok)
    => (result = NoExc /\ ~Called("rollback"))

\* C9: staged-object loaders: when a statement after a successful upload
\* raises, rollback is called and commit is not.
C9_FailedStatementRollsBack ==
  (LoadOfRows /\ Staged /\ Succeeded("upload_fileobj") /\ StatementFailed)
    => (Called("rollback") /\ ~Called("commit") /\ result # NoExc)

\* C10: staged-object loaders: a failure of the upload or of the COPY statement
\* reaches the caller as an IOError whose cause is the collaborator's
\* exception (here for loads whose rollback did not raise).
C10_FailuresWrappedInIOError ==
  (LoadOfRows /\ Staged /\ ~Failed("rollback")
     /\ (Failed("upload_fileobj") \/ Failed("execute_copy")))
    => (result.cls = "IOError"
        /\ result.cause = (IF Failed("upload_fileobj") THEN "upload_fileobj"
                           ELSE "execute_copy"))

\* C11: with if_exists 'replace', after a load of rows returns normally the
\* target table holds exactly the rows of the dataset just loaded, whatever
\* it held before (here for loads that start with no transaction left open
\* by an earlier failure).
C11_ReplaceLeavesOnlyTheNewRows ==
  (LoadOfRows /\ WasConnected /\ config.if_exists = "replace" /\ result = NoExc
     /\ lastOp.database.working = lastOp.database.committed)
    => (database.committed = Table(lastOp.df) /\ database.working = Table(lastOp.df))


\* C12: with if_exists 'append', a load of rows that returns normally
\* leaves the rows the table held before in place and adds the rows of the
\* dataset after them (a table that was absent is created with those rows),
\* so loading A twice into an absent table leaves A followed by A.
C12_AppendAddsRowsAfterTheOld ==
  (LoadOfRows /\ WasConnected /\ config.if_exists = "append" /\ result = NoExc)
    => LET expected == Table(lastOp.database.working.rows \o lastOp.df)
       IN database.committed = expected /\ database.working = expected

\* C12's case: the table was absent, a dataset A was appended and committed,
\* and the same dataset has just been appended again.
C12_Witness ==
  /\ LoadOfRows /\ WasConnected /\ config.if_exists = "append" /\ result = NoExc
  /\ lastOp.database.committed = Table(lastOp.df)
  /\ database.committed = Table(lastOp.df \o lastOp.df)

C14_FailedLoadLeavesTableAlone ==
  (lastOp.op = "load" /\ result # NoExc /\ ~Failed("rollback"))
    => database = lastOp.database

\* C15: PostgresLoader: when a step after the precondition checks raises
\* (DROP/CREATE, writing the rows to the buffer, the copy from the stream),
\* rollback is called exactly once, commit is not called and the step's
\* exception reaches the caller unchanged; when no step raises, commit is
\* called exactly once and rollback is not called.
C15_PostgresRollsBackOrCommits ==
  (LoadOfRows /\ WasConnected /\ db_type = "postgres"
     /\ config.if_exists # "invalid_option" /\ ~Failed("rollback"))
    => /\ (\E c \in {"execute_drop", "execute_create", "execute_create_if_not_exists",
                     "to_csv_buffer", "copy_expert"} : Failed(c))
            => (CountCalls("rollback") = 1 /\ ~Called("commit")
                /\ result = ClientError(FailedCall))
       /\ AllSucceeded
            => (CountCalls("commit") = 1 /\ ~Called("rollback") /\ result = NoExc)

\* C16: MySQLLoader and MSSQLLoader: when a statement executed on the cursor
\* raises (the CREATE, the DROP or TRUNCATE, the bulk-load statement),
\* rollback is called exactly once, commit is not called and the statement's
\* exception reaches the caller unchanged (here for loads in which neither
\* the rollback nor the removal of the staging file raised).
C16_LocalFileStatementFailureRollsBack ==
  (LoadOfRows /\ WasConnected /\ db_type \in {"mysql", "mssql"} /\ StatementFailed
     /\ ~Failed("rollback") /\ ~Failed("os_remove"))
    => (CountCalls("rollback") = 1 /\ ~Called("commit")
        /\ result = ClientError(FailedCall))

\* C17: MySQLLoader and MSSQLLoader: once the staging file of a load has been
\* created it no longer exists when the load returns or raises, on every exit
\* path: success, failure while writing the file, failure of the bulk-load
\* statement, failure of the commit (here for loads in which the removal
\* itself did not raise).
C17_StagingFileIsRemoved ==
  (LoadOfRows /\ db_type \in {"mysql", "mssql"} /\ ~Failed("os_remove"))
    => CreatedFiles \cap files = {}

\* C18: the staged-object loaders and MySQLLoader, MSSQLLoader: after a load
\* of rows returns normally no staged artifact of it remains: the object it
\* uploaded has been deleted with the key of the upload, the local staging
\* file has been removed (here for loads whose delete_object did not raise).
C18_NoArtifactAfterSuccess ==
  (LoadOfRows /\ WasConnected /\ result = NoExc /\ ~Failed("delete_object")
     /\ (Staged \/ db_type \in {"mysql", "mssql"}))
    => /\ Staged => /\ Succeeded("delete_object")
                    /\ \A i, j \in 1..Len(log) :
                         (log[i].call = "upload_fileobj" /\ log[j].call = "delete_object")
                           => log[j].arg = log[i].arg
                    /\ lastOp.key \notin s3_objects
       /\ CreatedFiles \cap files = {}

\* C19: get_loader raises ValueError and builds no loader when the
\* configuration has no db_type or a db_type that is not registered; for a
\* registered db_type it returns an instance of the class registered under
\* that name, not connected, and calls no client.
C19_GetLoaderResolvesOrRaises ==
  lastOp.op = "get_loader"
    => /\ log = <<>>
       /\ connection = None /\ s3_client = None
       /\ IF db_type \in DOMAIN LOADER_MAPPING
          THEN result = NoExc /\ loader = LOADER_MAPPING[db_type]
          ELSE result.cls = "ValueError" /\ loader = NoLoader

\* C19's case: get_loader was called with a db_type that is not registered
\* and raised the ValueError that names it.
C19_Witness ==
  /\ lastOp.op = "get_loader"
  /\ db_type = "unsupported_db"
  /\ result.cls = "ValueError" /\ result.val = "unsupported_db"
  /\ loader = NoLoader

\* C20: close() on an instance that is not connected (never connected, or
\* already closed) does not raise, calls no collaborator and leaves the
\* instance as it was; a close() that succeeds closes the connection it held
\* with one call and leaves the instance not connected, so a second close()
\* in a row does not close the connection again.
C20_CloseIsIdempotent ==
  lastOp.op = "close"
    => /\ lastOp.connection = None
            => (result = NoExc /\ log = <<>> /\ connection = None
                /\ s3_client = lastOp.s3_client /\ database = lastOp.database)
       /\ (lastOp.connection # None /\ result = NoExc)
            => (log = <<Entry("db_close", lastOp.connection, TRUE)>>
                /\ connection = None)

\* C20's case: a staged-object loader that was connected and closed (it
\* still holds the storage client, but no connection) is closed again.
C20_Witness ==
  /\ lastOp.op = "close"
  /\ lastOp.connection = None /\ lastOp.s3_client # None
  /\ result = NoExc /\ log = <<>>

\* C21: after close() returns the instance holds no handle: the connection
\* field is None and, for the staged-object loaders, so is the object-storage
\* client field, as on a freshly constructed instance.
C21_CloseReleasesEveryHandle ==
  (lastOp.op = "close" /\ result = NoExc)
    => (connection = None /\ s3_client = None)

\* C22: a load of rows passes the connection precondition exactly when the
\* most recent connect() that returned has not been followed by a close()
\* that returned.
C22_LoadableIffConnectedAndNotClosed ==
  LoadOfRows => ((result # NotEstablished) <=> established)

\* C23: when the database client or the object-storage client raises while
\* connect() is opening the connection, connect() raises a ConnectionError
\* whose cause is the client's exception; the client's exception itself
\* never reaches the caller.
C23_ConnectFailureIsWrapped ==
  (lastOp.op = "connect" /\ result # NoExc)
    => (result.cls = "ConnectionError" /\ result.cause = FailedCall)

\* the instance as it was when the last operation was called, with the
\* configuration it was constructed with
AsConstructed ==
  [Self EXCEPT !.config = constructed, !.connection = lastOp.connection,
               !.s3_client = lastOp.s3_client]

\* C24: no operation of the loader (construction, connect, load_dataframe,
\* close) changes the instance's configuration, and every load applies the
\* existence policy the instance was constructed with: its calls and its
\* outcome are those the configuration of the construction leads to.
C24_ConfigurationIsFixed ==
  /\ lastOp.op \in {"get_loader", "connect", "close", "load"} => config = lastOp.config
  /\ LoadOfRows
       => \E F \in LoadFaults(AsConstructed, lastOp.df, lastOp.table_name, lastOp.key) :
            LoadDataframe(AsConstructed, lastOp.df, lastOp.table_name, lastOp.key, F)
              = [log |-> log, exc |-> result]

\* C25: when a load of rows raises the configuration error for an if_exists
\* that is neither 'replace' nor 'append', it has by then executed no
\* statement on the connection, written no staging file and uploaded no
\* object.
C25_InvalidIfExistsRaisesBeforeAnyEffect ==
  (LoadOfRows /\ WasConnected /\ config.if_exists = "invalid_option"
     /\ result = UnsupportedIfExists(Self))
    => \A i \in 1..Len(log) : log[i].call \notin StatementCalls \cup StagingCalls

\* the statements the last load executed on the cursor, in order
Statements == SelectSeq(log, LAMBDA e : e.call \in StatementCalls)

\* C26: a staged-object loader under 'replace' (explicit or by default)
\* whose steps all succeed executes exactly three statements, in this order
\* and all after the upload returned: DROP TABLE IF EXISTS, an unconditional
\* CREATE TABLE, then the COPY of the uploaded object with the access role.
C26_ReplaceIsDropCreateCopy ==
  (LoadOfRows /\ WasConnected /\ Staged /\ IfExists(Self) = "replace"
     /\ result = NoExc /\ AllSucceeded /\ log # <<>>)
    => /\ Succeeded("upload_fileobj")
       /\ Statements = <<Entry("execute_drop", 0, TRUE), Entry("execute_create", 0, TRUE),
                         Entry("execute_copy", lastOp.key, TRUE)>>
       /\ \A c \in StatementCalls : After(c, "upload_fileobj")

\* the loaders that issue SQL statements themselves
SqlIssuing == {"postgres", "mysql", "mssql", "redshift", "snowflake", "databricks", "duckdb"}

\* C27: a load of rows by a loader that issues SQL itself, with if_exists
\* 'append', never executes DROP TABLE or TRUNCATE (nor CREATE OR REPLACE);
\* the first statement it executes is the create-if-absent of the target,
\* executed once, and the ingest step comes after it; a load that returns
\* has run both.
C27_AppendNeverDropsOrTruncates ==
  (LoadOfRows /\ WasConnected /\ db_type \in SqlIssuing /\ config.if_exists = "append")
    => /\ \A c \in {"execute_drop", "execute_truncate", "execute_create",
                    "execute_create_or_replace"} : ~Called(c)
       /\ CountCalls("execute_create_if_not_exists") <= 1
       /\ Statements # <<>> => Statements[1].call = "execute_create_if_not_exists"
       /\ \A c \in IngestCalls : After(c, "execute_create_if_not_exists")
       /\ result = NoExc
            => /\ Succeeded("execute_create_if_not_exists")
               /\ \E c \in IngestCalls : Succeeded(c)

\* C27's case: a load under 'append' into a table that already has rows
\* creates-if-absent, ingests and returns.
C27_Witness ==
  /\ LoadOfRows /\ WasConnected /\ db_type \in SqlIssuing /\ config.if_exists = "append"
  /\ lastOp.database.committed.exists /\ Len(lastOp.database.committed.rows) > 0
  /\ result = NoExc
  /\ Succeeded("execute_create_if_not_exists")

\* C28: every staged artifact is named uniquely per load: no load stages
\* (uploads an object, writes a staging file) under a name that an earlier
\* load staged under.
C28_ArtifactNamesAreUnique ==
  [][lastOp'.op = "load" => ArtifactNames(log') \cap usedNames = {}]_vars

\* C29: when two instances built from the same configuration load into the
\* same table at the same time, under every interleaving of their calls each
\* load's ingest statement reads the artifact holding that load's own
\* dataset, and no load's artifact is overwritten or deleted by the other
\* load before its own ingest statement has run.
C29_ConcurrentLoadsKeepTheirArtifacts ==
  running # <<>>
    => \A p \in Instances : running[p].read \subseteq {p} /\ ~running[p].clobbered

\* the calls a load must not repeat: the upload, the ingest and the commit
UploadCalls == {"upload_fileobj"}
AnyIngestCalls ==
  IngestCalls \cup {"to_sql_replace", "to_sql_append", "load_job_truncate", "load_job_append"}
CountOf(S) == Cardinality({i \in 1..Len(log) : log[i].call \in S})

\* C30: no loader retries: within one load the upload, the ingest and the
\* commit are each invoked at most once, and when one of them fails the load
\* raises and invokes none of them afterwards.
C30_NoInternalRetry ==
  lastOp.op = "load"
    => /\ CountOf(UploadCalls) <= 1
       /\ CountOf(AnyIngestCalls) <= 1
       /\ CountOf({"commit"}) <= 1
       /\ \A i \in 1..Len(log) :
            (log[i].call \in UploadCalls \cup AnyIngestCalls \cup {"commit"} /\ ~log[i].ok)
              => /\ result # NoExc
                 /\ \A j \in (i + 1)..Len(log) :
                      log[j].call \notin UploadCalls \cup AnyIngestCalls \cup {"commit"}

\* C30's case: the commit of a load raises after the upload and the ingest
\* succeeded; the load raises, having made each of the calls once.
C30_Witness ==
  /\ LoadOfRows /\ Failed("commit")
  /\ Succeeded("upload_fileobj") /\ Succeeded("execute_copy")
  /\ CountOf({"commit"}) = 1
  /\ result # NoExc

\* every SQL type a loader can emit
SqlTypes(db) == {SqlType(db, d) : d \in Dtypes}
\* the column list read back as the backend reads it: a quoted identifier
\* ends at the first closing quote character that is not doubled, and a
\* doubled one stands for the character itself
RECURSIVE IdentEnd(_, _, _)
IdentEnd(db, text, i) ==
  IF i > Len(text) THEN 0
  ELSE IF text[i] = CloseQuote(db)
       THEN IF i + 1 <= Len(text) /\ text[i + 1] = CloseQuote(db)
            THEN IdentEnd(db, text, i + 2)
            ELSE i
       ELSE IdentEnd(db, text, i + 1)
RECURSIVE Unescape(_, _)
Unescape(db, s) ==
  IF s = <<>> THEN <<>>
  ELSE IF Head(s) = CloseQuote(db) THEN <<Head(s)>> \o Unescape(db, Tail(Tail(s)))
  ELSE <<Head(s)>> \o Unescape(db, Tail(s))
Malformed == <<[name |-> <<>>, type |-> "malformed"]>>
RECURSIVE ParseFrom(_, _, _, _)
ParseFrom(db, text, i, acc) ==
  IF i > Len(text) \/ text[i] # OpenQuote(db) THEN Malformed
  ELSE LET e == IdentEnd(db, text, i + 1)
       IN IF e = 0 \/ e + 2 > Len(text) THEN Malformed
          ELSE IF text[e + 1] # " " \/ text[e + 2] \notin SqlTypes(db) THEN Malformed
          ELSE LET cols == Append(acc, [name |-> Unescape(db, SubSeq(text, i + 1, e - 1)),
                                        type |-> text[e + 2]])
               IN IF e + 2 = Len(text) THEN cols
                  ELSE IF text[e + 3] = "," THEN ParseFrom(db, text, e + 4, cols)
                  ELSE Malformed
ColumnList(db, text) == IF text = <<>> THEN <<>> ELSE ParseFrom(db, text, 1, <<>>)

\* C31: the column list of a generated CREATE TABLE statement has one entry
\* per dataset column, in the dataset's order and with the dataset's names,
\* each with the loader's fixed type for a recognized dtype and the loader's
\* text type for any other.
C31_SchemaFollowsTheDataset ==
  schema # <<>>
    => ColumnList(db_type, schema.statement.columns)
         = [i \in 1..Len(schema.columns) |->
              [name |-> schema.columns[i].name,
               type |-> IF schema.columns[i].dtype \in RecognizedDtypes
                        THEN TypeMapping(db_type)[schema.columns[i].dtype]
                        ELSE TextType(db_type)]]

\* the load-job submissions of the BigQuery client, by write disposition
LoadJobCalls == {"load_job_truncate", "load_job_append"}
\* what C32 says of a BigQuery load: one load job, to the table of the
\* configured dataset, with the write disposition of the existence policy,
\* and the client's exception, when it raises, reaching the caller as it is
OneLoadJob ==
  /\ CountOf(LoadJobCalls) = 1
  /\ CountOf({"load_job_truncate"}) = 1 <=> config.if_exists \in {NoKey, "replace"}
  /\ CountOf({"load_job_append"}) = 1 <=> config.if_exists = "append"
  /\ \A i \in 1..Len(log) :
       (log[i].call \in LoadJobCalls /\ config.dataset_id # NoKey)
         => log[i].arg = [dataset |-> config.dataset_id, table |-> lastOp.table_name]
  /\ CountOf({"job_result"}) <= 1
  /\ Succeeded("load_job_truncate") \/ Succeeded("load_job_append") => Called("job_result")
  /\ ~AllSucceeded => result = ClientError(FailedCall)
  /\ AllSucceeded => result = NoExc

\* C32 as stated: every load of rows by a connected BigQuery loader submits
\* exactly one load job to '<dataset_id>.<table_name>', WRITE_TRUNCATE for
\* 'replace' or no if_exists and WRITE_APPEND for 'append', and an exception
\* of the client while submitting or awaiting the job reaches the caller
\* unchanged.
C32_EveryLoadSubmitsOneJob ==
  (LoadOfRows /\ WasConnected /\ db_type = "bigquery") => OneLoadJob

\* C32, amended: the same for the loads whose if_exists is 'replace',
\* 'append' or absent; with any other value the load raises ValueError and
\* submits no job.
C32_LoadWithValidPolicySubmitsOneJob ==
  (LoadOfRows /\ WasConnected /\ db_type = "bigquery")
    => IF config.if_exists \in {NoKey, "replace", "append"}
       THEN OneLoadJob
       ELSE result = UnsupportedIfExists(Self) /\ log = <<>>

\* C32's case: an 'append' load into a configured dataset whose job was
\* submitted and then failed while it was awaited.
C32_Witness ==
  /\ LoadOfRows /\ WasConnected /\ db_type = "bigquery"
  /\ config.if_exists = "append" /\ config.dataset_id # NoKey
  /\ Succeeded("load_job_append") /\ Failed("job_result")
  /\ result = ClientError("job_result")

\* a DuckDB load of rows B that returned, into a table holding rows A
DuckDBSecondLoad ==
  /\ LoadOfRows /\ WasConnected /\ db_type = "duckdb" /\ result = NoExc
  /\ lastOp.database.committed.exists /\ Len(lastOp.database.committed.rows) > 0

DuckDBEmptyLoad == LoadOfNoRows /\ WasConnected /\ db_type = "duckdb"

C35_PreconditionBeforeEmptyCheck ==
  (LoadOfNoRows /\ ~WasConnected) => (result = NotEstablished /\ log = <<>>)

\* C35's case: a loader that was never connected, with a configuration
\* that is otherwise complete, is given a zero-row dataset.
C35_Witness ==
  /\ LoadOfNoRows
  /\ lastOp.connection = None /\ lastOp.s3_client = None
  /\ config.if_exists \in {"replace", "append"}
  /\ result.cls = "ConnectionError"

\* the configuration would make a load of rows raise a configuration error
InvalidConfiguration ==
  \/ config.if_exists = "invalid_option"
  \/ Staged /\ (Falsy(config.s3_bucket) \/ Falsy(config.iam_role_arn))
  \/ db_type = "mssql" /\ Falsy(config.staging_file_path)

\* C36: the empty-dataset short-circuit is taken before any validation of
\* the configuration: a load of a zero-row dataset on a connected instance
\* returns without error and without a call even when if_exists is
\* unrecognized or the bucket, the role or the staging path is missing.
C36_EmptyCheckBeforeValidation ==
  (LoadOfNoRows /\ WasConnected /\ InvalidConfiguration)
    => (result = NoExc /\ log = <<>>)

\* C36's case: a connected MSSQL loader with an unrecognized if_exists and
\* no staging path is given a zero-row dataset and returns.
C36_Witness ==
  /\ LoadOfNoRows /\ WasConnected /\ db_type = "mssql"
  /\ config.if_exists = "invalid_option" /\ Falsy(config.staging_file_path)
  /\ result = NoExc

\* C37: a connect() that raises leaves the instance with the handles it
\* held before the call and no other: in particular a staged-object loader
\* whose backend connection opened before the creation of the
\* object-storage client failed does not keep that connection.
C37_FailedConnectKeepsNoNewHandle ==
  (lastOp.op = "connect" /\ result # NoExc)
    => (connection = lastOp.connection /\ s3_client = lastOp.s3_client)

\* C38: load_dataframe never changes the connection or the object-storage
\* client of the instance, whether it returns or raises: an instance that
\* held its handles before a load holds the same ones after it, so that the
\* connection precondition of a further load passes without a new connect().
C38_LoadKeepsTheHandles ==
  lastOp.op = "load"
    => /\ connection = lastOp.connection
       /\ s3_client = lastOp.s3_client
       /\ WasConnected => ~NotConnected(Self)

\* C38's case: a load of rows on a connected instance made calls and raised.
C38_Witness ==
  /\ LoadOfRows /\ WasConnected
  /\ log # <<>> /\ ~AllSucceeded /\ result # NoExc
  /\ connection # None

\* the views registered on the connection by the calls of the log and not
\* unregistered by them
ViewsAfter ==
  {log[i].arg : i \in {j \in 1..Len(log) : log[j].call = "register" /\ log[j].ok}}
    \ {log[i].arg : i \in {j \in 1..Len(log) : log[j].call = "unregister" /\ log[j].ok}}

\* C39: a DuckDB load that passes the precondition, the empty-dataset check
\* and the if_exists check calls unregister exactly once, for the view name
\* it registered and as its last call, whether it returns or raises and also
\* when the CREATE or the INSERT statement failed; unless unregister itself
\* raises, no view of the load is registered when the load ends.
C39_DuckDBUnregistersItsView ==
  (LoadOfRows /\ WasConnected /\ db_type = "duckdb"
     /\ config.if_exists \in {NoKey, "replace", "append"})
    => /\ CountCalls("register") = 1 /\ log[1].call = "register"
       /\ CountCalls("unregister") = 1 /\ log[Len(log)].call = "unregister"
       /\ log[Len(log)].arg = log[1].arg
       /\ Succeeded("unregister") => ViewsAfter = {}

\* C39's case: the INSERT of an 'append' load failed after the view was
\* registered, and the view was unregistered before the load raised.
C39_Witness ==
  /\ LoadOfRows /\ WasConnected /\ db_type = "duckdb"
  /\ Succeeded("register") /\ Failed("execute_insert")
  /\ Succeeded("unregister")
  /\ result = ClientError("execute_insert")

====
